---- MODULE Spec2Model ----
(***************************************************************************)
(* Kubernetes bootstrap of sv-prow-poc (edge-image-builder combustion).    *)
(*                                                                         *)
(* Two phases are modelled:                                                *)
(*   - build time: Combustion.configureKubernetes and the functions it     *)
(*     calls in src/pkg/combustion/kubernetes.go, one action per stage;    *)
(*   - boot time: the script rendered from                                 *)
(*     src/pkg/combustion/templates/k3s-multi-node-installer.sh.tpl,       *)
(*     one action per command, run under `set -euo pipefail`, followed by  *)
(*     the life of the kubernetes-resources-install unit it installs.      *)
(***************************************************************************)
EXTENDS Naturals, Sequences, FiniteSets, TLC

VARIABLES
    k8s,        \* ctx.ImageDefinition.Kubernetes: Version, Nodes, Network
    registry,   \* c.Registry: absent, or what ManifestsPath()/HelmCharts() report
    bpc,        \* position of configureKubernetes
    cluster,    \* the *kubernetes.Cluster returned by NewCluster
    fs,         \* paths that exist on the build host
    audit,      \* outcomes recorded with log.AuditComponent*
    warnings,   \* advisory warnings emitted with log.Audit / zap Warn
    calls,      \* stages of the pipeline entered so far, in order
    staged,     \* what the staging functions returned (paths of template values)
    templateValues, \* the templateValues handed to storeKubernetesInstaller
    script,     \* the rendered install script (NoScript until written)
    ret,        \* what configureKubernetes returned: [scripts, err]
    node        \* the machines booting the rendered script

buildVars == <<k8s, registry, bpc, cluster, fs, audit, warnings, calls, staged, templateValues, script, ret>>
vars == <<k8s, registry, bpc, cluster, fs, audit, warnings, calls, staged, templateValues, script, ret, node>>

---------------------------------------------------------------------------
(* Bounds of the model *)

MaxNodes == 3      \* declared nodes of a cluster definition
MaxCharts == 1     \* Helm charts reported by the registry collaborator
MaxEntries == 2    \* entries the download leaves in the install directory
MaxApplies == 2    \* successful runs of kubectl apply that are counted

---------------------------------------------------------------------------
(* Strings *)

\* strings.Contains over a version modelled as its sequence of characters
Contains(s, sub) ==
    \E i \in 0..Len(s) :
        /\ i + Len(sub) <= Len(s)
        /\ SubSeq(s, i + 1, i + Len(sub)) = sub

KubernetesDistroRKE2 == <<"r", "k", "e", "2">>
KubernetesDistroK3S == <<"k", "3", "s">>

\* filepath.Join of two non-empty elements
Join(a, b) == a \o "/" \o b

k8sDir == "kubernetes"
k8sConfigDir == "config"
k8sInstallDir == "install"
k8sImagesDir == "images"
k8sManifestsDir == "manifests"
k8sInitServerConfigFile == "init_server.yaml"
k8sServerConfigFile == "server.yaml"
k8sAgentConfigFile == "agent.yaml"
k8sInstallScript == "20-k8s-install.sh"
registryMirrorsFileName == "registries.yaml"

\* prependArtefactPath: the path as the boot-time script sees it
prependArtefactPath(p) == Join("$ARTEFACTS_DIR", p)

\* kubernetesArtefactsPath(ctx), relative to ctx.ArtefactsDir
kubernetesArtefactsPath == k8sDir

localKubernetesManifestsPath == Join(k8sDir, k8sManifestsDir)

---------------------------------------------------------------------------
(* Inputs: the cluster definition and the collaborators *)

VersionEmpty == <<>>
VersionPlain == <<"v", "1", ".", "3", "0">>
VersionK3s == <<"v", "1", "+", "k", "3", "s", "1">>
VersionRKE2 == <<"v", "1", "+", "r", "k", "e", "2", "r", "1">>
VersionBoth == <<"k", "3", "s", "+", "r", "k", "e", "2">>
Versions == {VersionEmpty, VersionPlain, VersionK3s, VersionRKE2, VersionBoth}

Types == {"server", "agent"}

PlaceholderHostname == "localhost.localdomain"

\* hostnames a definition may declare: the first node is node-1 or carries the
\* placeholder name, the i-th node (i > 1) is HostPool[i]
HostPool == <<"node-1", "node-2", "node-3", "node-4", "node-5">>
FirstHostnames == {"node-1", PlaceholderHostname}

NodeLists ==
    UNION { { [i \in 1..n |-> [Hostname |-> IF i = 1 THEN h ELSE HostPool[i], Type |-> t[i]]] :
                h \in FirstHostnames, t \in [1..n -> Types] } : n \in 0..MaxNodes }

APIVIPs == {"", "192.168.100.1"}
APIHosts == {"", "api.cluster01.edge"}

ChartPool == <<"metallb", "longhorn", "rancher", "neuvector">>
RegistryManifestsDir == "registry/manifests"

\* the files the registry collaborator may hold under its manifests path
RegistryFileSets == {{}, {"manifest.yaml"}}

NoRegistry == [present |-> FALSE, manifestsPath |-> "", files |-> {}, charts |-> <<>>]
Registries ==
    {NoRegistry}
    \cup { [present |-> TRUE, manifestsPath |-> p, files |-> f, charts |-> SubSeq(ChartPool, 1, c)] :
              p \in {"", RegistryManifestsDir}, f \in RegistryFileSets, c \in 0..MaxCharts }

\* a registry without a manifests path has no manifest files to speak of
RegistryOK(r) == (r.manifestsPath = "") => (r.files = {})

Hostnames(nodes) == { nodes[i].Hostname : i \in 1..Len(nodes) }
Servers(nodes) == { i \in 1..Len(nodes) : nodes[i].Type = "server" }
Agents(nodes) == { i \in 1..Len(nodes) : nodes[i].Type = "agent" }

\* kubernetes.ServersCount
ServersCount(nodes) == Cardinality(Servers(nodes))

---------------------------------------------------------------------------
(* Build time: configureKubernetes *)

NoError == "nil"
NoCluster == [InitialiserName |-> "", ServerConfig |-> FALSE,
              InitialiserConfig |-> FALSE, AgentConfig |-> FALSE]
NoScript == [template |-> "none"]
NoValues == <<>>
NoStaged == [installScript |-> "", binaryPath |-> "", installPath |-> "",
             imagesPath |-> "", manifestsPath |-> ""]
NotReturned == [scripts |-> <<>>, err |-> "pending"]

Return(scripts, err) == [scripts |-> scripts, err |-> err]

\* Combustion.kubernetesConfigurator
MutConfiguratorK3sFirst(version) ==
    IF Contains(version, KubernetesDistroK3S) THEN "configureK3S"
    ELSE IF Contains(version, KubernetesDistroRKE2) THEN "configureRKE2"
    ELSE "nil"

MutConfiguratorNoDefault(version) ==
    IF Contains(version, KubernetesDistroRKE2) THEN "configureRKE2" ELSE "configureK3S"

kubernetesConfigurator(version) ==
    IF Contains(version, KubernetesDistroRKE2) THEN "configureRKE2"
    ELSE IF Contains(version, KubernetesDistroK3S) THEN "configureK3S"
    ELSE "nil"

\* kubernetes.NewCluster: the clusters it may return for a definition
RolesConsistent(nodes) ==
    IF Len(nodes) < 2 THEN Agents(nodes) = {} ELSE Servers(nodes) # {}

NewClusterResults(k) ==
    IF ~RolesConsistent(k.Nodes) THEN {}
    ELSE IF Len(k.Nodes) < 2
    THEN { [InitialiserName |-> "", ServerConfig |-> TRUE,
            InitialiserConfig |-> FALSE, AgentConfig |-> FALSE] }
    ELSE { [InitialiserName |-> k.Nodes[i].Hostname, ServerConfig |-> TRUE,
            InitialiserConfig |-> TRUE, AgentConfig |-> Agents(k.Nodes) # {}] :
              i \in Servers(k.Nodes) }

Init ==
    /\ k8s \in { [Version |-> v, Nodes |-> n, Network |-> [APIVIP |-> a, APIHost |-> h]] :
                   v \in Versions, n \in NodeLists, a \in APIVIPs, h \in APIHosts }
    /\ registry \in { r \in Registries : RegistryOK(r) }
    /\ bpc = "start"
    /\ cluster = NoCluster
    /\ fs = {}
    /\ audit = <<>>
    /\ warnings = {}
    /\ calls = <<>>
    /\ staged = NoStaged
    /\ templateValues = NoValues
    /\ script = NoScript
    /\ ret = NotReturned
    /\ node = <<>>

\* return from configureKubernetes with an error, recording the failed outcome
MutSwallowError(err, audited) ==
    /\ bpc' = "returned"
    /\ ret' = Return(<<k8sInstallScript>>, NoError)
    /\ audit' = IF audited THEN Append(audit, "failed") ELSE audit

Fail(err, audited) ==
    /\ bpc' = "returned"
    /\ ret' = Return(<<>>, err)
    /\ audit' = IF audited THEN Append(audit, "failed") ELSE audit

\* lines 57-77: version gate, configurator lookup, two-server warning
MutGateFatalWarning ==
    /\ bpc = "start"
    /\ IF ServersCount(k8s.Nodes) = 2
       THEN /\ Fail("two server nodes", TRUE)
            /\ warnings' = warnings \cup {"two-servers"}
       ELSE /\ bpc' = "newCluster"
            /\ UNCHANGED <<ret, audit, warnings>>
    /\ UNCHANGED <<k8s, registry, cluster, fs, calls, staged, templateValues, script, node>>

Gate ==
    /\ bpc = "start"
    /\ IF k8s.Version = VersionEmpty
       THEN /\ bpc' = "returned"
            /\ ret' = Return(<<>>, NoError)
            /\ audit' = Append(audit, "skipped")
            /\ UNCHANGED warnings
       ELSE IF kubernetesConfigurator(k8s.Version) = "nil"
       THEN /\ Fail("cannot configure kubernetes version", TRUE)
            /\ UNCHANGED warnings
       ELSE /\ bpc' = "newCluster"
            /\ warnings' = IF ServersCount(k8s.Nodes) = 2
                           THEN warnings \cup {"two-servers"} ELSE warnings
            /\ UNCHANGED <<ret, audit>>
    /\ UNCHANGED <<k8s, registry, cluster, fs, calls, staged, templateValues, script, node>>

\* lines 79-86: kubernetes.NewCluster
CreateCluster ==
    /\ bpc = "newCluster"
    /\ calls' = Append(calls, "NewCluster")
    /\ \/ /\ Fail("initialising cluster config", TRUE)
          /\ UNCHANGED cluster
       \/ /\ \E c \in NewClusterResults(k8s) : cluster' = c
          /\ bpc' = "mkdirArtefacts"
          /\ UNCHANGED <<ret, audit>>
    /\ UNCHANGED <<k8s, registry, fs, warnings, staged, templateValues, script, node>>

\* lines 88-91: os.MkdirAll(artefactsPath)
MkdirArtefacts ==
    /\ bpc = "mkdirArtefacts"
    /\ \/ /\ Fail("creating kubernetes artefacts path", FALSE)
          /\ UNCHANGED fs
       \/ /\ fs' = fs \cup {kubernetesArtefactsPath}
          /\ bpc' = "storeConfig"
          /\ UNCHANGED <<ret, audit>>
    /\ UNCHANGED <<k8s, registry, cluster, warnings, calls, staged, templateValues, script, node>>

\* storeKubernetesClusterConfig: the config files written when the first
\* `written` writes succeed, in the order server, init_server, agent
MutServerConfigOnly(c) == <<k8sServerConfigFile>>

ClusterConfigFiles(c) ==
    <<k8sServerConfigFile>>
    \o (IF c.InitialiserConfig THEN <<k8sInitServerConfigFile>> ELSE <<>>)
    \o (IF c.AgentConfig THEN <<k8sAgentConfigFile>> ELSE <<>>)

StoredConfigs(c, destPath, written) ==
    { Join(destPath, ClusterConfigFiles(c)[i]) : i \in 1..written }

\* lines 93-96: storeKubernetesClusterConfig
StoreClusterConfig ==
    /\ bpc = "storeConfig"
    /\ calls' = Append(calls, "storeKubernetesClusterConfig")
    /\ \E written \in 0..Len(ClusterConfigFiles(cluster)) :
          /\ fs' = fs \cup StoredConfigs(cluster, kubernetesArtefactsPath, written)
          /\ IF written < Len(ClusterConfigFiles(cluster))
             THEN Fail("storing cluster config", TRUE)
             ELSE /\ bpc' = "installScript"
                  /\ UNCHANGED <<ret, audit>>
    /\ UNCHANGED <<k8s, registry, cluster, warnings, staged, templateValues, script, node>>


---------------------------------------------------------------------------
(* Build time: configureK3S / configureRKE2 *)

Distribution == IF kubernetesConfigurator(k8s.Version) = "configureRKE2" THEN "rke2" ELSE "k3s"

\* DownloadInstallScript: the name the collaborator gives the downloaded script
InstallScriptName(distribution) == distribution \o "_installer.sh"

\* downloadKubernetesInstallScript, called first by configureK3S / configureRKE2
DownloadInstallScript ==
    /\ bpc = "installScript"
    /\ calls' = Append(calls, "downloadKubernetesInstallScript")
    /\ \/ /\ Fail("downloading install script", TRUE)
          /\ UNCHANGED <<fs, staged>>
       \/ /\ fs' = fs \cup {Join(kubernetesArtefactsPath, InstallScriptName(Distribution))}
          /\ staged' = [staged EXCEPT !.installScript =
                           prependArtefactPath(Join(k8sDir, InstallScriptName(Distribution)))]
          /\ bpc' = "artefacts"
          /\ UNCHANGED <<ret, audit>>
    /\ UNCHANGED <<k8s, registry, cluster, warnings, templateValues, script, node>>

\* what the download may leave in the install directory, as os.ReadDir lists it
\* (sorted by name): an optional directory, then the first files of FilePool
DirEntry == [Name |-> "extra", IsDir |-> TRUE]
FilePool == <<[Name |-> "k3s", IsDir |-> FALSE],
              [Name |-> "k3s-arm64", IsDir |-> FALSE],
              [Name |-> "k3s.sha256sum", IsDir |-> FALSE]>>

Listings ==
    { l \in { d \o SubSeq(FilePool, 1, n) : d \in {<<>>, <<DirEntry>>}, n \in 0..MaxEntries } :
        Len(l) <= MaxEntries }

imagesPathRel == Join(k8sDir, k8sImagesDir)
installPathRel == Join(k8sDir, k8sInstallDir)

K3sFailurePoints == {"imagesDir", "installDir", "download", "readDir", "none"}

\* the check of lines 217-219
MutAcceptAnySingleEntry(entries) == Len(entries) # 1

UnexpectedEntries(entries) == Len(entries) # 1 \/ entries[1].IsDir

\* downloadK3sArtefacts: [binaryPath, imagesPath, err, made] when the first
\* failing call is failAt and the download leaves `entries` behind
downloadK3sArtefacts(failAt, entries) ==
    LET made == CASE failAt = "imagesDir" -> {}
                  [] failAt = "installDir" -> {imagesPathRel}
                  [] failAt = "download" -> {imagesPathRel, installPathRel}
                  [] OTHER -> {imagesPathRel, installPathRel}
                              \cup { Join(installPathRel, entries[i].Name) : i \in 1..Len(entries) }
        err == CASE failAt = "imagesDir" -> "creating kubernetes images dir"
                 [] failAt = "installDir" -> "creating kubernetes install dir"
                 [] failAt = "download" -> "downloading artefacts"
                 [] failAt = "readDir" -> "reading k3s install path"
                 [] OTHER -> IF UnexpectedEntries(entries)
                             THEN "k3s install path contains unexpected entries"
                             ELSE NoError
    IN  [binaryPath |-> IF err = NoError
                        THEN prependArtefactPath(Join(installPathRel, entries[1].Name)) ELSE "",
         imagesPath |-> IF err = NoError THEN prependArtefactPath(imagesPathRel) ELSE "",
         err |-> err, made |-> made]

RKE2FailurePoints == {"extractCNI", "imagesDir", "installDir", "download", "none"}

\* downloadRKE2Artefacts
downloadRKE2Artefacts(failAt) ==
    LET made == CASE failAt \in {"extractCNI", "imagesDir"} -> {}
                  [] failAt = "installDir" -> {imagesPathRel}
                  [] OTHER -> {imagesPathRel, installPathRel}
        err == CASE failAt = "extractCNI" -> "extracting CNI from cluster config"
                 [] failAt = "imagesDir" -> "creating kubernetes images dir"
                 [] failAt = "installDir" -> "creating kubernetes install dir"
                 [] failAt = "download" -> "downloading artefacts"
                 [] OTHER -> NoError
    IN  [installPath |-> IF err = NoError THEN prependArtefactPath(installPathRel) ELSE "",
         imagesPath |-> IF err = NoError THEN prependArtefactPath(imagesPathRel) ELSE "",
         err |-> err, made |-> made]

\* second stage of configureK3S (lines 138-141) / configureRKE2 (lines 233-236)
DownloadArtefacts ==
    /\ bpc = "artefacts"
    /\ calls' = Append(calls, "downloadArtefacts")
    /\ \E r \in IF Distribution = "k3s"
                THEN { downloadK3sArtefacts(f, e) : f \in K3sFailurePoints, e \in Listings }
                ELSE { [binaryPath |-> ""] @@ downloadRKE2Artefacts(f) : f \in RKE2FailurePoints } :
          /\ fs' = fs \cup r.made
          /\ IF r.err # NoError
             THEN /\ Fail(r.err, TRUE)
                  /\ UNCHANGED staged
             ELSE /\ staged' = [staged EXCEPT
                                  !.binaryPath = r.binaryPath,
                                  !.installPath = IF Distribution = "k3s" THEN "" ELSE r.installPath,
                                  !.imagesPath = r.imagesPath]
                  /\ bpc' = "manifests"
                  /\ UNCHANGED <<ret, audit>>
    /\ UNCHANGED <<k8s, registry, cluster, warnings, templateValues, script, node>>

---------------------------------------------------------------------------
(* Build time: configureManifests *)

manifestDestDir == localKubernetesManifestsPath
VIPManifestFile == Join(manifestDestDir, "k8s-vip.yaml")

ManifestFailurePoints ==
    {"none", "mkdirVIP", "parseVIP", "writeVIP", "copyFiles", "helmCharts", "mkdirCharts", "writeChart"}

\* fileio.CopyFiles(src, dest, "", false): creates dest and copies the files of src
CopyFiles(files) == {manifestDestDir} \cup { Join(manifestDestDir, f) : f \in files }

ChartFiles(charts) == { Join(manifestDestDir, charts[i] \o ".yaml") : i \in 1..Len(charts) }

\* lines 370-386: the VIP manifest; [err, made, populated]
MutVIPManifestAlways(apiVIP, failAt) ==
    [err |-> NoError, made |-> {manifestDestDir, VIPManifestFile}, populated |-> TRUE]

VIPManifestStep(apiVIP, failAt) ==
    IF apiVIP = "" THEN [err |-> NoError, made |-> {}, populated |-> FALSE]
    ELSE CASE failAt = "mkdirVIP" ->
                [err |-> "creating manifests destination dir", made |-> {}, populated |-> FALSE]
           [] failAt = "parseVIP" ->
                [err |-> "parsing VIP manifest", made |-> {manifestDestDir}, populated |-> FALSE]
           [] failAt = "writeVIP" ->
                [err |-> "storing VIP manifest", made |-> {manifestDestDir}, populated |-> FALSE]
           [] OTHER ->
                [err |-> NoError, made |-> {manifestDestDir, VIPManifestFile}, populated |-> TRUE]

\* lines 389-395: raw manifests of the registry collaborator
RegistryManifestsStep(reg, failAt) ==
    IF reg.manifestsPath = "" THEN [err |-> NoError, made |-> {}, populated |-> FALSE]
    ELSE IF failAt = "copyFiles"
    THEN [err |-> "copying manifests to combustion dir", made |-> {}, populated |-> FALSE]
    ELSE [err |-> NoError, made |-> CopyFiles(reg.files), populated |-> TRUE]

\* lines 397-420: Helm charts of the registry collaborator
HelmChartsStep(reg, failAt) ==
    IF failAt = "helmCharts"
    THEN [err |-> "getting helm charts", made |-> {}, populated |-> FALSE]
    ELSE IF Len(reg.charts) = 0 THEN [err |-> NoError, made |-> {}, populated |-> FALSE]
    ELSE CASE failAt = "mkdirCharts" ->
                [err |-> "creating manifests destination dir", made |-> {}, populated |-> FALSE]
           [] failAt = "writeChart" ->
                [err |-> "storing helm chart", made |-> {manifestDestDir}, populated |-> FALSE]
           [] OTHER ->
                [err |-> NoError, made |-> {manifestDestDir} \cup ChartFiles(reg.charts),
                 populated |-> TRUE]

\* configureManifests: [manifestsPath, err, made]
configureManifests(apiVIP, reg, failAt) ==
    LET vip == VIPManifestStep(apiVIP, failAt)
        raw == IF reg.present /\ vip.err = NoError
               THEN RegistryManifestsStep(reg, failAt)
               ELSE [err |-> NoError, made |-> {}, populated |-> FALSE]
        helm == IF reg.present /\ vip.err = NoError /\ raw.err = NoError
                THEN HelmChartsStep(reg, failAt)
                ELSE [err |-> NoError, made |-> {}, populated |-> FALSE]
        err == IF vip.err # NoError THEN vip.err
               ELSE IF raw.err # NoError THEN raw.err
               ELSE helm.err
        manifestsPathPopulated == vip.populated \/ raw.populated \/ helm.populated
    IN  [manifestsPath |-> IF err = NoError /\ manifestsPathPopulated
                           THEN prependArtefactPath(localKubernetesManifestsPath) ELSE "",
         err |-> err,
         made |-> vip.made \cup raw.made \cup helm.made]

\* third stage of configureK3S (lines 143-146) / configureRKE2 (lines 238-241)
ConfigureManifests ==
    /\ bpc = "manifests"
    /\ calls' = Append(calls, "configureManifests")
    /\ \E f \in ManifestFailurePoints :
          LET r == configureManifests(k8s.Network.APIVIP, registry, f)
          IN  /\ fs' = fs \cup r.made
              /\ IF r.err # NoError
                 THEN /\ Fail(r.err, TRUE)
                      /\ UNCHANGED staged
                 ELSE /\ staged' = [staged EXCEPT !.manifestsPath = r.manifestsPath]
                      /\ bpc' = "render"
                      /\ UNCHANGED <<ret, audit>>
    /\ UNCHANGED <<k8s, registry, cluster, warnings, templateValues, script, node>>

---------------------------------------------------------------------------
(* Build time: template values, template selection and rendering *)

\* lines 148-157 (k3s) and 243-252 (RKE2)
BaseTemplateValues(k, st, distribution) ==
    ( "installScript" :> st.installScript
      @@ "apiVIP" :> k.Network.APIVIP
      @@ "apiHost" :> k.Network.APIHost
      @@ "imagesPath" :> st.imagesPath
      @@ "manifestsPath" :> st.manifestsPath
      @@ "configFilePath" :> prependArtefactPath(k8sDir)
      @@ "registryMirrors" :> prependArtefactPath(Join(k8sDir, registryMirrorsFileName)) )
    @@ (IF distribution = "k3s" THEN "binaryPath" :> st.binaryPath
                                ELSE "installPath" :> st.installPath)

\* lines 159 and 254
MutSingleNodeUpToTwo(nodes) == Len(nodes) < 3

singleNode(nodes) == Len(nodes) < 2

\* lines 169 / 177-179 (k3s) and 260 / 265-267 (RKE2)
TemplateValues(k, c, st, distribution) ==
    IF singleNode(k.Nodes)
    THEN BaseTemplateValues(k, st, distribution) @@ "configFile" :> k8sServerConfigFile
    ELSE BaseTemplateValues(k, st, distribution)
         @@ "nodes" :> k.Nodes
         @@ "initialiser" :> c.InitialiserName
         @@ "initialiserConfigFile" :> k8sInitServerConfigFile

\* the template name handed to storeKubernetesInstaller (lines 171, 181, 262, 269)
TemplateName(k, distribution) ==
    (IF singleNode(k.Nodes) THEN "single-node-" ELSE "multi-node-") \o distribution

\* warnings of lines 161-167 and 174-175
RenderWarnings(k, distribution) ==
    IF distribution # "k3s" THEN {}
    ELSE IF singleNode(k.Nodes)
    THEN (IF k.Network.APIVIP = "" THEN {} ELSE {"k3s-single-node-vip-traefik"})
    ELSE {"k3s-multi-node-traefik"}

\* text/template: truth of a string, and the `and` function
Truthy(x) == x # ""
MutAndFirstOnly(a, b) == a

TemplateAnd(a, b) == IF Truthy(a) THEN b ELSE a

\* k3s-multi-node-installer.sh.tpl rendered with values tv: what the text holds
\* where the template has an action
k3sMultiNodeInstaller(tv) ==
    [template |-> "multi-node-k3s",
     hosts |-> [i \in 1..Len(tv["nodes"]) |-> <<tv["nodes"][i].Hostname, tv["nodes"][i].Type>>],
     imagesPath |-> tv["imagesPath"],
     configFilePath |-> tv["configFilePath"],
     initialiser |-> tv["initialiser"],
     initialiserConfigFile |-> tv["initialiserConfigFile"],
     manifestsBlock |-> Truthy(tv["manifestsPath"]),
     manifestsPath |-> tv["manifestsPath"],
     hostsLine |-> IF Truthy(TemplateAnd(tv["apiVIP"], tv["apiHost"]))
                   THEN tv["apiVIP"] \o " " \o tv["apiHost"] ELSE "",
     registryMirrors |-> tv["registryMirrors"],
     binaryPath |-> tv["binaryPath"],
     installScript |-> tv["installScript"]]

\* template.Parse: only the k3s multi-node template is part of the sources
MutParseStamped(templateName, tv) ==
    [template |-> templateName, values |-> tv, serial |-> Len(calls)]

Parse(templateName, tv) ==
    IF templateName = "multi-node-k3s" THEN k3sMultiNodeInstaller(tv)
    ELSE [template |-> templateName, values |-> tv]

combustionScriptPath == Join("$COMBUSTION_DIR", k8sInstallScript)

\* last stage of configureK3S / configureRKE2: storeKubernetesInstaller, and the
\* return of configureKubernetes (lines 98-105)
StoreInstaller ==
    /\ bpc = "render"
    /\ calls' = Append(calls, "storeKubernetesInstaller")
    /\ warnings' = warnings \cup RenderWarnings(k8s, Distribution)
    /\ templateValues' = TemplateValues(k8s, cluster, staged, Distribution)
    /\ \/ /\ Fail("parsing template", TRUE)
          /\ UNCHANGED <<fs, script>>
       \/ /\ Fail("writing kubernetes install script", TRUE)
          /\ UNCHANGED <<fs, script>>
       \/ /\ script' = Parse(TemplateName(k8s, Distribution), templateValues')
          /\ fs' = fs \cup {combustionScriptPath}
          /\ audit' = Append(audit, "successful")
          /\ ret' = Return(<<k8sInstallScript>>, NoError)
          /\ bpc' = "returned"
    /\ UNCHANGED <<k8s, registry, cluster, staged, node>>

\* storeKubernetesInstaller invoked again with the template and values of the
\* first rendering: os.WriteFile truncates and rewrites the same file
MaxRenders == 3

RenderAgain ==
    /\ bpc = "returned"
    /\ script # NoScript
    /\ Len(calls) < MaxRenders
    /\ calls' = Append(calls, "storeKubernetesInstaller")
    /\ templateValues' = TemplateValues(k8s, cluster, staged, Distribution)
    /\ script' = Parse(TemplateName(k8s, Distribution), templateValues')
    /\ fs' = (fs \ {combustionScriptPath}) \cup {combustionScriptPath}
    /\ UNCHANGED <<k8s, registry, bpc, cluster, audit, warnings, staged, ret, node>>

\* the renderer on its own: any definition, cluster and staged paths that can
\* reach the rendering stage
StagedPaths ==
    { [installScript |-> prependArtefactPath(Join(k8sDir, InstallScriptName(d))),
       binaryPath |-> IF d = "k3s" THEN prependArtefactPath(Join(installPathRel, "k3s")) ELSE "",
       installPath |-> IF d = "k3s" THEN "" ELSE prependArtefactPath(installPathRel),
       imagesPath |-> prependArtefactPath(imagesPathRel),
       manifestsPath |-> mp] :
        d \in {"k3s", "rke2"},
        mp \in {"", prependArtefactPath(localKubernetesManifestsPath)} }

InitRender ==
    /\ k8s \in { [Version |-> v, Nodes |-> n, Network |-> [APIVIP |-> a, APIHost |-> h]] :
                   v \in {VersionK3s, VersionRKE2, VersionBoth}, n \in NodeLists,
                   a \in APIVIPs, h \in APIHosts }
    /\ registry = NoRegistry
    /\ cluster \in NewClusterResults(k8s)
    /\ staged \in { st \in StagedPaths : (st.binaryPath # "") <=> (Distribution = "k3s") }
    /\ bpc = "render"
    /\ fs = {}
    /\ audit = <<>>
    /\ warnings = {}
    /\ calls = <<>>
    /\ templateValues = NoValues
    /\ script = NoScript
    /\ ret = NotReturned
    /\ node = <<>>

NextRender == StoreInstaller \/ RenderAgain

SpecRender == InitRender /\ [][NextRender]_vars

Build ==
    \/ Gate
    \/ CreateCluster
    \/ MkdirArtefacts
    \/ StoreClusterConfig
    \/ DownloadInstallScript
    \/ DownloadArtefacts
    \/ ConfigureManifests
    \/ StoreInstaller

SpecBuild == Init /\ [][Build]_vars

---------------------------------------------------------------------------
(* Boot time: the rendered k3s multi-node script, run under set -euo pipefail *)

\* the commands of the script, in the order of the text
Commands == <<"readHostname", "fallbackHostname", "lookup",
              "mount", "mkdirImages", "cpImages", "umount",
              "selectConfig",
              "mkdirManifests", "cpManifests", "writeUnit", "enableUnit",
              "hostsEntry",
              "mkdirConfig", "cpConfig", "mirrors",
              "exports", "mkdirBin", "cpBin", "chmodBin", "installer">>

\* the numbered step of the design each command belongs to
StepOf(c) ==
    CASE c \in {"readHostname", "fallbackHostname"} -> 1
      [] c = "lookup" -> 2
      [] c \in {"mount", "mkdirImages", "cpImages", "umount"} -> 3
      [] c = "selectConfig" -> 4
      [] c \in {"mkdirManifests", "cpManifests", "writeUnit", "enableUnit"} -> 5
      [] c = "hostsEntry" -> 6
      [] c \in {"mkdirConfig", "cpConfig", "mirrors"} -> 7
      [] OTHER -> 8

IndexOf(c) == CHOOSE i \in 1..Len(Commands) : Commands[i] = c

FreshMachine ==
    [pc |-> "readHostname", exit |-> "running",
     fellBack |-> FALSE,
     HOSTNAME |-> "", NODETYPE |-> "", CONFIGFILE |-> "", INSTALL_K3S_EXEC |-> "",
     mounted |-> FALSE, fx |-> {}, sys |-> {}, config |-> "", etcHosts |-> "",
     kubectl |-> FALSE, kubeconfig |-> FALSE, k3s |-> FALSE,
     unit |-> "none", applies |-> 0]

\* a machine is provisioned with the script a successful build rendered
PowerOn ==
    /\ bpc = "returned"
    /\ script.template = "multi-node-k3s"
    /\ node = <<>>
    /\ node' = <<FreshMachine>>
    /\ UNCHANGED buildVars

Machines == DOMAIN node
At(m, c) == node[m].exit = "running" /\ node[m].pc = c

\* set -e: the failing command ends the script with a non-zero status
MutIgnoreFailure(m) == node' = [node EXCEPT ![m].pc = Commands[IndexOf(node[m].pc) + 1]]

Halt(m) == node' = [node EXCEPT ![m].exit = "nonzero"]

\* a path of the script names a file the build put on the media
OnMedia(path) == \E p \in fs : prependArtefactPath(p) = path

\* what /etc/hostname and /proc/sys/kernel/hostname may hold on a machine
EtcHostnames == {"", PlaceholderHostname, "stranger"} \cup Hostnames(k8s.Nodes)
KernelHostnames == {"", PlaceholderHostname, "stranger", HostPool[2]}

\* line 10: HOSTNAME=$(cat /etc/hostname); line 11 decides on the fallback
ReadHostname(m) ==
    /\ At(m, "readHostname")
    /\ \/ Halt(m)
       \/ \E h \in EtcHostnames :
            node' = [node EXCEPT ![m].HOSTNAME = h,
                                 ![m].pc = IF h = "" THEN "fallbackHostname" ELSE "lookup"]
    /\ UNCHANGED buildVars

\* line 13: the hostname is rejected
MutRejectOnlyEmpty(h) == h = ""

MissingHostname(h) == h = "" \/ h = PlaceholderHostname

\* lines 12-16: the kernel hostname, read only when /etc/hostname was empty
FallbackHostname(m) ==
    /\ At(m, "fallbackHostname")
    /\ \/ Halt(m)
       \/ \E h \in KernelHostnames :
            node' = [node EXCEPT ![m].HOSTNAME = h, ![m].fellBack = TRUE,
                                 ![m].exit = IF MissingHostname(h) THEN "nonzero" ELSE "running",
                                 ![m].pc = IF MissingHostname(h) THEN "fallbackHostname" ELSE "lookup"]
    /\ UNCHANGED buildVars

\* lines 4-8 and 19: ${hosts[$HOSTNAME]:-none}; a later assignment to the same
\* key replaces an earlier one
MutLookupDefaultsToAgent(hosts, h) ==
    IF \E i \in 1..Len(hosts) : hosts[i][1] = h
    THEN hosts[CHOOSE i \in 1..Len(hosts) :
                   hosts[i][1] = h /\ \A j \in (i + 1)..Len(hosts) : hosts[j][1] # h][2]
    ELSE "agent"

HostsLookup(hosts, h) ==
    IF \E i \in 1..Len(hosts) : hosts[i][1] = h
    THEN hosts[CHOOSE i \in 1..Len(hosts) :
                   hosts[i][1] = h /\ \A j \in (i + 1)..Len(hosts) : hosts[j][1] # h][2]
    ELSE "none"

\* lines 19-23
Lookup(m) ==
    /\ At(m, "lookup")
    /\ LET t == HostsLookup(script.hosts, node[m].HOSTNAME)
       IN  node' = [node EXCEPT ![m].NODETYPE = t,
                                ![m].exit = IF t = "none" THEN "nonzero" ELSE "running",
                                ![m].pc = IF t = "none" THEN "lookup" ELSE "mount"]
    /\ UNCHANGED buildVars

\* a command that either fails, ending the script, or leaves the machine as succ
Command(m, c, succ) ==
    /\ At(m, c)
    /\ \/ Halt(m)
       \/ node' = [node EXCEPT ![m] = succ]
    /\ UNCHANGED buildVars

\* line 25
Mount(m) == Command(m, "mount", [node[m] EXCEPT !.mounted = TRUE, !.pc = "mkdirImages"])

\* line 27
MkdirImages(m) == Command(m, "mkdirImages", [node[m] EXCEPT !.pc = "cpImages"])

\* line 28
CpImages(m) ==
    Command(m, "cpImages", [node[m] EXCEPT !.fx = @ \cup {"images"}, !.pc = "umount"])

\* line 30
Umount(m) == Command(m, "umount", [node[m] EXCEPT !.mounted = FALSE, !.pc = "selectConfig"])

\* line 34: [ "$HOSTNAME" = <initialiser> ]
MutFirstHostInitialises(sc, h) == h = sc.hosts[1][1]

MutServersInitialise(sc, h) == \E i \in DOMAIN sc.hosts : sc.hosts[i] = <<h, "server">>

IsInitialiser(sc, h) == h = sc.initialiser

\* lines 32-35: CONFIGFILE
MutSelectRoleConfigOnly(sc, h, t) == Join(sc.configFilePath, t \o ".yaml")

SelectedConfig(sc, h, t) ==
    IF IsInitialiser(sc, h)
    THEN Join(sc.configFilePath, sc.initialiserConfigFile)
    ELSE Join(sc.configFilePath, t \o ".yaml")

\* the command after the initialiser block: lines 67-69 are in the text only
\* when the template's condition held
AfterInitialiserBlock(sc) == IF sc.hostsLine # "" THEN "hostsEntry" ELSE "mkdirConfig"

\* the command after line 35: lines 37-64 are in the text only when
\* manifestsPath was set, and are run only inside the `if` of line 34
AfterSelect(sc, h, t) ==
    IF IsInitialiser(sc, h) /\ sc.manifestsBlock
    THEN "mkdirManifests"
    ELSE AfterInitialiserBlock(sc)

\* lines 32-35
SelectConfig(m) ==
    /\ At(m, "selectConfig")
    /\ node' = [node EXCEPT
                  ![m].CONFIGFILE = SelectedConfig(script, node[m].HOSTNAME, node[m].NODETYPE),
                  ![m].pc = AfterSelect(script, node[m].HOSTNAME, node[m].NODETYPE)]
    /\ UNCHANGED buildVars

\* the files of the manifests directory on the media
ManifestFiles ==
    { p \in fs : p \in {VIPManifestFile} \cup (CopyFiles(UNION RegistryFileSets) \ {manifestDestDir})
                       \cup ChartFiles(ChartPool) }

\* line 38
MkdirManifests(m) ==
    Command(m, "mkdirManifests", [node[m] EXCEPT !.fx = @ \cup {"manifestsDir"},
                                                 !.sys = @ \cup {"manifestsDir"},
                                                 !.pc = "cpManifests"])

\* line 39: the glob matches nothing when the directory holds no file
CpManifests(m) ==
    /\ At(m, "cpManifests")
    /\ \/ Halt(m)
       \/ /\ ManifestFiles # {}
          /\ OnMedia(script.manifestsPath)
          /\ node' = [node EXCEPT ![m].fx = @ \cup {"manifests"},
                                  ![m].sys = @ \cup {"manifests"},
                                  ![m].pc = "writeUnit"]
    /\ UNCHANGED buildVars

\* lines 41-61
WriteUnit(m) ==
    Command(m, "writeUnit", [node[m] EXCEPT !.fx = @ \cup {"unitFile"},
                                            !.sys = @ \cup {"unitFile"},
                                            !.pc = "enableUnit"])

\* line 63
EnableUnit(m) ==
    Command(m, "enableUnit", [node[m] EXCEPT !.fx = @ \cup {"unitEnabled"},
                                             !.sys = @ \cup {"unitEnabled"},
                                             !.pc = AfterInitialiserBlock(script)])

\* line 68
HostsEntry(m) ==
    Command(m, "hostsEntry", [node[m] EXCEPT !.fx = @ \cup {"hostsEntry"},
                                             !.etcHosts = script.hostsLine,
                                             !.pc = "mkdirConfig"])

\* line 71
MkdirConfig(m) == Command(m, "mkdirConfig", [node[m] EXCEPT !.pc = "cpConfig"])

\* line 72: cp fails when the selected file is not on the media
CpConfig(m) ==
    /\ At(m, "cpConfig")
    /\ \/ Halt(m)
       \/ /\ OnMedia(node[m].CONFIGFILE)
          /\ node' = [node EXCEPT ![m].fx = @ \cup {"config"},
                                  ![m].config = node[m].CONFIGFILE,
                                  ![m].pc = "mirrors"]
    /\ UNCHANGED buildVars

\* lines 74-76: the mirrors file is optional
Mirrors(m) ==
    /\ At(m, "mirrors")
    /\ \/ Halt(m)
       \/ node' = [node EXCEPT ![m].fx = @ \cup {"mirrors"}, ![m].pc = "exports"]
       \/ node' = [node EXCEPT ![m].pc = "exports"]
    /\ UNCHANGED buildVars

\* line 78: export INSTALL_K3S_EXEC=$NODETYPE
MutInstallAlwaysServer(n) == "server"

InstallRole(n) == n.NODETYPE

\* lines 78-81
Exports(m) ==
    /\ At(m, "exports")
    /\ node' = [node EXCEPT ![m].INSTALL_K3S_EXEC = InstallRole(node[m]), ![m].pc = "mkdirBin"]
    /\ UNCHANGED buildVars

\* line 83
MkdirBin(m) == Command(m, "mkdirBin", [node[m] EXCEPT !.pc = "cpBin"])

\* line 84
CpBin(m) ==
    /\ At(m, "cpBin")
    /\ \/ Halt(m)
       \/ /\ OnMedia(script.binaryPath)
          /\ node' = [node EXCEPT ![m].fx = @ \cup {"binary"}, ![m].pc = "chmodBin"]
    /\ UNCHANGED buildVars

\* line 85
ChmodBin(m) == Command(m, "chmodBin", [node[m] EXCEPT !.pc = "installer"])

\* systemd starts an enabled unit whose file exists when the system boots
UnitAtBoot(sys) == IF {"unitFile", "unitEnabled"} \subseteq sys THEN "pending" ELSE "none"

\* line 87: the generic installer; it may or may not leave /opt/bin/kubectl
Installer(m) ==
    /\ At(m, "installer")
    /\ OnMedia(script.installScript)
    /\ \/ node' = [node EXCEPT ![m].fx = @ \cup {"installer"}, ![m].exit = "nonzero"]
       \/ \E k \in BOOLEAN :
            node' = [node EXCEPT ![m].fx = @ \cup {"installer"}, ![m].exit = "0",
                                 ![m].pc = "done", ![m].kubectl = k,
                                 ![m].unit = UnitAtBoot(node[m].sys)]
    /\ UNCHANGED buildVars

Script ==
    \/ \E m \in Machines : ReadHostname(m)
    \/ \E m \in Machines : FallbackHostname(m)
    \/ \E m \in Machines : Lookup(m)
    \/ \E m \in Machines : Mount(m)
    \/ \E m \in Machines : MkdirImages(m)
    \/ \E m \in Machines : CpImages(m)
    \/ \E m \in Machines : Umount(m)
    \/ \E m \in Machines : SelectConfig(m)
    \/ \E m \in Machines : MkdirManifests(m)
    \/ \E m \in Machines : CpManifests(m)
    \/ \E m \in Machines : WriteUnit(m)
    \/ \E m \in Machines : EnableUnit(m)
    \/ \E m \in Machines : HostsEntry(m)
    \/ \E m \in Machines : MkdirConfig(m)
    \/ \E m \in Machines : CpConfig(m)
    \/ \E m \in Machines : Mirrors(m)
    \/ \E m \in Machines : Exports(m)
    \/ \E m \in Machines : MkdirBin(m)
    \/ \E m \in Machines : CpBin(m)
    \/ \E m \in Machines : ChmodBin(m)
    \/ \E m \in Machines : Installer(m)

---------------------------------------------------------------------------
(* The fleet: every declared node boots its own copy of the rendered script *)

MaxFleet == 2

\* multi-node k3s definitions whose nodes all boot
FleetNetworks ==
    { nw \in [APIVIP : APIVIPs, APIHost : APIHosts] : (nw.APIVIP = "") <=> (nw.APIHost = "") }

FleetDefinitions ==
    { [Version |-> VersionK3s, Nodes |-> n, Network |-> nw] :
        n \in { l \in NodeLists : Len(l) >= 2 /\ Len(l) <= MaxFleet /\ l[1].Hostname = HostPool[1] },
        nw \in FleetNetworks }

InitFleet ==
    /\ k8s \in FleetDefinitions
    /\ registry = NoRegistry
    /\ bpc = "start"
    /\ cluster = NoCluster
    /\ fs = {}
    /\ audit = <<>>
    /\ warnings = {}
    /\ calls = <<>>
    /\ staged = NoStaged
    /\ templateValues = NoValues
    /\ script = NoScript
    /\ ret = NotReturned
    /\ node = <<>>

\* machine i is the i-th declared node
PowerOnFleet ==
    /\ bpc = "returned"
    /\ script.template = "multi-node-k3s"
    /\ node = <<>>
    /\ node' = [i \in 1..Len(k8s.Nodes) |-> FreshMachine]
    /\ UNCHANGED buildVars

\* line 10 on a machine whose /etc/hostname holds its declared hostname
ReadOwnHostname(m) ==
    /\ At(m, "readHostname")
    /\ \/ Halt(m)
       \/ node' = [node EXCEPT ![m].HOSTNAME = k8s.Nodes[m].Hostname, ![m].pc = "lookup"]
    /\ UNCHANGED buildVars

FleetScript ==
    \/ \E m \in Machines : ReadOwnHostname(m)
    \/ \E m \in Machines : Lookup(m)
    \/ \E m \in Machines : Mount(m)
    \/ \E m \in Machines : MkdirImages(m)
    \/ \E m \in Machines : CpImages(m)
    \/ \E m \in Machines : Umount(m)
    \/ \E m \in Machines : SelectConfig(m)
    \/ \E m \in Machines : MkdirManifests(m)
    \/ \E m \in Machines : CpManifests(m)
    \/ \E m \in Machines : WriteUnit(m)
    \/ \E m \in Machines : EnableUnit(m)
    \/ \E m \in Machines : HostsEntry(m)
    \/ \E m \in Machines : MkdirConfig(m)
    \/ \E m \in Machines : CpConfig(m)
    \/ \E m \in Machines : Mirrors(m)
    \/ \E m \in Machines : Exports(m)
    \/ \E m \in Machines : MkdirBin(m)
    \/ \E m \in Machines : CpBin(m)
    \/ \E m \in Machines : ChmodBin(m)
    \/ \E m \in Machines : Installer(m)

NextFleet == Build \/ PowerOnFleet \/ FleetScript

SpecFleet == InitFleet /\ [][NextFleet]_vars

---------------------------------------------------------------------------
(* After the script: the installed system and kubernetes-resources-install *)

Up(m) == node[m].exit = "0"

\* k3s.service starts
K3sStart(m) ==
    /\ Up(m)
    /\ ~node[m].k3s
    /\ node' = [node EXCEPT ![m].k3s = TRUE]
    /\ UNCHANGED buildVars

\* a running k3s server writes /etc/rancher/k3s/k3s.yaml
WriteKubeconfig(m) ==
    /\ Up(m)
    /\ node[m].k3s
    /\ node[m].INSTALL_K3S_EXEC = "server"
    /\ ~node[m].kubeconfig
    /\ node' = [node EXCEPT ![m].kubeconfig = TRUE]
    /\ UNCHANGED buildVars

\* lines 46-47: ConditionPathExists, both must hold or the start is skipped
MutConditionKubectlOnly(n) == n.kubectl

ConditionsMet(n) == n.kubectl /\ n.kubeconfig

\* lines 44-47: the unit is started after k3s.service, when its conditions hold
UnitStart(m) ==
    /\ Up(m)
    /\ node[m].unit = "pending"
    /\ node[m].k3s
    /\ node' = [node EXCEPT ![m].unit = IF ConditionsMet(node[m]) THEN "execStart" ELSE "skipped"]
    /\ UNCHANGED buildVars

\* line 56: kubectl apply; a failure leaves the unit failed
ExecStart(m) ==
    /\ Up(m)
    /\ node[m].unit = "execStart"
    /\ \/ /\ node[m].applies < MaxApplies
          /\ node' = [node EXCEPT ![m].applies = @ + 1, ![m].unit = "disable"]
       \/ node' = [node EXCEPT ![m].unit = "failed"]
    /\ UNCHANGED buildVars

\* an ExecStartPost command: it runs once the command before it succeeded
PostCommand(m, c, succ) ==
    /\ Up(m)
    /\ node[m].unit = c
    /\ \/ node' = [node EXCEPT ![m] = succ]
       \/ node' = [node EXCEPT ![m].unit = "failed"]
    /\ UNCHANGED buildVars

\* line 58
DisableUnit(m) ==
    PostCommand(m, "disable", [node[m] EXCEPT !.sys = @ \ {"unitEnabled"}, !.unit = "rmUnit"])

\* line 59
RemoveUnitFile(m) ==
    PostCommand(m, "rmUnit", [node[m] EXCEPT !.sys = @ \ {"unitFile"}, !.unit = "rmManifests"])

\* line 60
RemoveManifests(m) ==
    PostCommand(m, "rmManifests",
                [node[m] EXCEPT !.sys = @ \ {"manifests", "manifestsDir"}, !.unit = "finished"])

\* lines 54-55: Restart=on-failure starts the failed unit again
RestartOnFailure(m) ==
    /\ Up(m)
    /\ node[m].unit = "failed"
    /\ node' = [node EXCEPT ![m].unit = IF ConditionsMet(node[m]) THEN "execStart" ELSE "skipped"]
    /\ UNCHANGED buildVars

\* the machine restarts; line 50: an enabled unit is wanted by multi-user.target
Reboot(m) ==
    /\ Up(m)
    /\ node' = [node EXCEPT ![m].k3s = FALSE, ![m].unit = UnitAtBoot(node[m].sys)]
    /\ UNCHANGED buildVars

System ==
    \/ \E m \in Machines : K3sStart(m)
    \/ \E m \in Machines : WriteKubeconfig(m)
    \/ \E m \in Machines : UnitStart(m)
    \/ \E m \in Machines : ExecStart(m)
    \/ \E m \in Machines : DisableUnit(m)
    \/ \E m \in Machines : RemoveUnitFile(m)
    \/ \E m \in Machines : RemoveManifests(m)
    \/ \E m \in Machines : RestartOnFailure(m)
    \/ \E m \in Machines : Reboot(m)

Boot == Script \/ System

Next == Build \/ PowerOn \/ Boot

Spec == Init /\ [][Next]_vars

---------------------------------------------------------------------------
(* Properties *)

\* the script of machine record n has completed command c
Completed(n, c) ==
    \/ n.pc = "done"
    \/ IndexOf(n.pc) > IndexOf(c)
    \/ c = "installer" /\ "installer" \in n.fx

\* the Type the cluster definition declares for hostname h
DeclaredType(h) == k8s.Nodes[CHOOSE i \in 1..Len(k8s.Nodes) : k8s.Nodes[i].Hostname = h].Type

Declared(h) == \E i \in 1..Len(k8s.Nodes) : k8s.Nodes[i].Hostname = h

ConfigOnMedia(file) == prependArtefactPath(Join(k8sDir, file))

NothingDone(n) == n.fx = {} /\ n.sys = {} /\ ~n.mounted /\ n.config = "" /\ n.etcHosts = ""

\* C1: on every machine that has selected its config (step 4), CONFIGFILE is
\* init_server.yaml exactly when the discovered hostname equals the script's
\* initialiser, and is otherwise <role>.yaml for the role declared for that
\* hostname; the file copied to the runtime config path is the selected one.
C1_ConfigSelection ==
    \A m \in Machines :
        LET n == node[m] IN
        Completed(n, "selectConfig") =>
            /\ (n.CONFIGFILE = ConfigOnMedia(k8sInitServerConfigFile))
                   <=> (n.HOSTNAME = cluster.InitialiserName)
            /\ n.HOSTNAME # cluster.InitialiserName =>
                   /\ Declared(n.HOSTNAME)
                   /\ n.CONFIGFILE = ConfigOnMedia(DeclaredType(n.HOSTNAME) \o ".yaml")
                   /\ n.CONFIGFILE \in {ConfigOnMedia(k8sServerConfigFile),
                                        ConfigOnMedia(k8sAgentConfigFile)}
            /\ n.config \in {"", n.CONFIGFILE}
            /\ Completed(n, "cpConfig") => n.config = n.CONFIGFILE

\* C1 witness: the initialiser placed init_server.yaml as its runtime config
C1_Witness ==
    \E m \in Machines :
        /\ node[m].HOSTNAME = cluster.InitialiserName
        /\ node[m].config = ConfigOnMedia(k8sInitServerConfigFile)

\* hostname discovery (step 1) of machine record n is over
DiscoveryOver(n) ==
    n.pc \notin {"readHostname", "fallbackHostname"} \/ n.exit # "running"

\* C2 (as claimed): whenever discovery ends with an empty hostname or with
\* localhost.localdomain, the script ends with a non-zero status before any
\* mount, copy, hosts-file write, unit installation or installer invocation.
C2_Original ==
    \A m \in Machines :
        LET n == node[m] IN
        (DiscoveryOver(n) /\ (n.HOSTNAME = "" \/ n.HOSTNAME = PlaceholderHostname)) =>
            /\ NothingDone(n)
            /\ n.pc \in {"readHostname", "fallbackHostname", "lookup"}
            /\ n.pc # "lookup" => n.exit = "nonzero"

\* C2 (amended): an empty hostname always ends the script in step 1, and so does
\* localhost.localdomain when it was read from the kernel after /etc/hostname
\* was empty; in both cases nothing has been mounted, copied or written.
C2_HostnameDiscovery ==
    \A m \in Machines :
        LET n == node[m] IN
        /\ (DiscoveryOver(n) /\ n.HOSTNAME = "") =>
               /\ n.exit = "nonzero"
               /\ n.pc \in {"readHostname", "fallbackHostname"}
               /\ NothingDone(n)
        /\ (n.fellBack /\ n.HOSTNAME = PlaceholderHostname) =>
               /\ n.exit = "nonzero"
               /\ n.pc = "fallbackHostname"
               /\ NothingDone(n)
        /\ (n.fellBack /\ n.exit = "running") => n.HOSTNAME \notin {"", PlaceholderHostname}

\* C2 witness: the fallback read localhost.localdomain and the script stopped
C2_Witness ==
    \E m \in Machines :
        /\ node[m].fellBack
        /\ node[m].HOSTNAME = PlaceholderHostname
        /\ node[m].exit = "nonzero"

\* the role lookup (step 2) of machine record n has been decided
LookupOver(n) == Completed(n, "lookup") \/ (n.pc = "lookup" /\ n.exit = "nonzero")

\* C3: a hostname that is no key of the hostname table ends the script with a
\* non-zero status at the lookup, before the volume is mounted or anything is
\* copied or written; for a key, NODETYPE is the Type declared for that node.
C3_RoleLookup ==
    \A m \in Machines :
        LET n == node[m] IN
        LookupOver(n) =>
            IF Declared(n.HOSTNAME)
            THEN /\ n.NODETYPE = DeclaredType(n.HOSTNAME)
                 /\ n.pc # "lookup"
            ELSE /\ n.exit = "nonzero"
                 /\ n.pc = "lookup"
                 /\ NothingDone(n)

\* C3 witness: an undeclared hostname was rejected by the lookup
C3_Witness ==
    \E m \in Machines :
        /\ node[m].pc = "lookup"
        /\ node[m].exit = "nonzero"
        /\ node[m].HOSTNAME = "stranger"

InitialiserEffects == {"manifestsDir", "manifests", "unitFile", "unitEnabled"}

\* C4: a machine whose hostname is not the initialiser never stages the
\* manifests nor writes or enables the unit, whatever manifestsPath is; on the
\* initialiser, once the block of lines 34-65 is behind it, these effects all
\* happened if manifestsPath is set in the template values and none otherwise.
C4_InitialiserOnly ==
    \A m \in Machines :
        LET n == node[m] IN
        /\ (DiscoveryOver(n) /\ n.HOSTNAME # cluster.InitialiserName) =>
               n.fx \cap InitialiserEffects = {} /\ n.sys = {} /\ n.unit = "none"
        /\ (n.HOSTNAME = cluster.InitialiserName /\ Completed(n, "enableUnit")) =>
               IF templateValues["manifestsPath"] # ""
               THEN InitialiserEffects \subseteq n.fx
               ELSE n.fx \cap InitialiserEffects = {} /\ n.sys = {}

\* C4 witness: an agent of a three-node cluster whose script carries the
\* manifests block ran to the end without the initialiser's effects
C4_Witness ==
    \E m \in Machines :
        /\ Len(k8s.Nodes) = 3
        /\ script.manifestsBlock
        /\ node[m].NODETYPE = "agent"
        /\ node[m].pc = "done"
        /\ node[m].fx \cap InitialiserEffects = {}

UnitRunning == {"execStart", "disable", "rmUnit", "rmManifests", "failed", "finished"}

\* C5: over any sequence of activations, failures, on-failure restarts and
\* reboots the manifests are applied successfully at most once, only on the
\* initialiser, only with kubectl and the kubeconfig present, and the finished
\* unit has removed itself. A reboot, or a failing ExecStartPost command,
\* between the successful apply and `systemctl disable` applies them again.
C5_Original ==
    \A m \in Machines :
        LET n == node[m] IN
        /\ n.applies <= 1
        /\ n.applies > 0 => (n.HOSTNAME = cluster.InitialiserName /\ n.kubectl /\ n.kubeconfig)
        /\ n.unit = "finished" => n.sys = {}

\* What every behaviour of the unit does satisfy: kubectl apply runs only on the
\* initialiser and only in an activation that found kubectl and the kubeconfig;
\* an activation whose apply and three ExecStartPost commands all succeeded
\* leaves the unit disabled and the unit file and manifests directory removed,
\* and after it the apply never runs again.
UnitLifecycle ==
    /\ [](\A m \in Machines :
            LET n == node[m] IN
            /\ (n.unit \in UnitRunning \/ n.applies > 0) =>
                   /\ n.HOSTNAME = cluster.InitialiserName
                   /\ n.exit = "0"
                   /\ templateValues["manifestsPath"] # ""
            /\ (n.unit = "execStart" \/ n.applies > 0) => (n.kubectl /\ n.kubeconfig)
            /\ n.unit = "finished" => (n.sys = {} /\ n.applies > 0))
    /\ [][\A m \in Machines \cap DOMAIN node' :
            /\ node'[m].applies # node[m].applies =>
                   /\ node[m].unit = "execStart"
                   /\ node'[m].applies = node[m].applies + 1
            /\ (node[m].exit = "0" /\ node[m].unit \in {"finished", "none"}) =>
                   /\ node'[m].unit \in {"finished", "none"}
                   /\ node'[m].applies = node[m].applies]_vars

\* one successful apply, after which the unit cleaned up after itself
UnitFinishedAfterOneApply ==
    \E m \in Machines :
        /\ node[m].unit = "finished"
        /\ node[m].applies = 1
        /\ node[m].sys = {}

HostsLineOf(k) == k.Network.APIVIP \o " " \o k.Network.APIHost

\* C6: the rendered script holds the hosts-file append exactly when APIVIP and
\* APIHost are both set, and the line is "<apiVIP> <apiHost>"; when either is
\* empty no machine, of any role, touches the hosts file.
C6_VIPHostEntry ==
    /\ script.template = "multi-node-k3s" =>
          /\ (script.hostsLine # "") <=> (k8s.Network.APIVIP # "" /\ k8s.Network.APIHost # "")
          /\ script.hostsLine # "" => script.hostsLine = HostsLineOf(k8s)
    /\ \A m \in Machines :
          /\ (k8s.Network.APIVIP = "" \/ k8s.Network.APIHost = "") =>
                 ("hostsEntry" \notin node[m].fx /\ node[m].etcHosts = "")
          /\ "hostsEntry" \in node[m].fx => node[m].etcHosts = HostsLineOf(k8s)
          /\ (Completed(node[m], "hostsEntry") /\ k8s.Network.APIVIP # "" /\ k8s.Network.APIHost # "")
                 => "hostsEntry" \in node[m].fx

\* C6 witness: a VIP without an API host, and a machine that ran the whole
\* script without touching the hosts file
C6_Witness ==
    /\ k8s.Network.APIVIP # ""
    /\ k8s.Network.APIHost = ""
    /\ \E m \in Machines : node[m].pc = "done" /\ node[m].etcHosts = ""

\* C7: /var is mounted only while a command of step 3 is running;
\* in every other state, ended scripts included, it is not mounted.
C7_Bracketing ==
    \A m \in Machines :
        node[m].mounted => (node[m].exit = "running" /\ StepOf(node[m].pc) = 3)

\* the side effect a command leaves behind, "" when it leaves none
EffectOf(c) ==
    CASE c = "cpImages" -> "images"
      [] c = "mkdirManifests" -> "manifestsDir"
      [] c = "cpManifests" -> "manifests"
      [] c = "writeUnit" -> "unitFile"
      [] c = "enableUnit" -> "unitEnabled"
      [] c = "hostsEntry" -> "hostsEntry"
      [] c = "cpConfig" -> "config"
      [] c = "mirrors" -> "mirrors"
      [] c = "cpBin" -> "binary"
      [] c = "installer" -> "installer"
      [] OTHER -> ""

Position(pc) == IF pc = "done" THEN Len(Commands) + 1 ELSE IndexOf(pc)

\* C8: the commands run in the order of the text (steps 1 to 8); a failing
\* command ends the script at once with a non-zero status and nothing changes
\* afterwards; no effect of a command is present before that command ran; the
\* installer is invoked only after the image, config and binary copies
\* succeeded; a script that ended either invoked the installer or aborted.
C8_FailFast ==
    /\ [](\A m \in Machines :
            LET n == node[m] IN
            /\ \A c \in {"cpImages", "cpConfig", "cpBin"} : Completed(n, c) => EffectOf(c) \in n.fx
            /\ \A i \in 1..Len(Commands) :
                   EffectOf(Commands[i]) \in n.fx => Completed(n, Commands[i])
            /\ n.exit = "0" <=> n.pc = "done"
            /\ n.exit = "0" => "installer" \in n.fx
            /\ "installer" \in n.fx =>
                   ({"images", "config", "binary"} \subseteq n.fx /\ n.INSTALL_K3S_EXEC = n.NODETYPE)
            /\ n.exit = "nonzero" => (n.unit = "none" /\ ~n.k3s))
    /\ [][\A m \in Machines \cap DOMAIN node' :
            LET a == node[m]
                b == node'[m]
            IN  /\ a.exit = "nonzero" => b = a
                /\ a.exit = "0" => (b.pc = a.pc /\ b.fx = a.fx /\ b.exit = a.exit /\ b.config = a.config)
                /\ (a.exit = "running" /\ b # a) =>
                       \/ /\ b.exit = "nonzero"
                          /\ b.pc = a.pc
                          /\ b.fx \ a.fx \subseteq {"installer"} \cap {EffectOf(a.pc)}
                          /\ b.mounted = a.mounted
                       \/ /\ Position(b.pc) > Position(a.pc)
                          /\ StepOf(b.pc) >= StepOf(a.pc)
                          /\ b.fx \ a.fx \subseteq {EffectOf(a.pc)}
                          /\ a.fx \subseteq b.fx]_vars

\* C8 witness: a script that got as far as the config copy and failed there
C8_Witness ==
    \E m \in Machines :
        /\ node[m].pc = "cpConfig"
        /\ node[m].exit = "nonzero"
        /\ "images" \in node[m].fx
        /\ "installer" \notin node[m].fx

MultiNodeKeys == {"nodes", "initialiser", "initialiserConfigFile"}
Rendered == script # NoScript

\* C9: whenever a script is rendered, the version names a distribution, the
\* template is the one of the four given by the distribution (RKE2 before k3s)
\* and by len(nodes) < 2; it is rendered once; the multi-node values are in the
\* template values exactly for a multi-node template, and `initialiser` is the
\* hostname of exactly one declared node.
C9_TemplateSelection ==
    Rendered =>
        LET multi == Len(k8s.Nodes) >= 2
            rke2 == Contains(k8s.Version, KubernetesDistroRKE2)
            k3s == Contains(k8s.Version, KubernetesDistroK3S)
        IN  /\ rke2 \/ k3s
            /\ script.template = (IF multi THEN "multi-node-" ELSE "single-node-")
                                     \o (IF rke2 THEN "rke2" ELSE "k3s")
            /\ Cardinality({ i \in DOMAIN calls : calls[i] = "storeKubernetesInstaller" }) = 1
            /\ combustionScriptPath \in fs
            /\ IF multi
               THEN /\ MultiNodeKeys \subseteq DOMAIN templateValues
                    /\ "configFile" \notin DOMAIN templateValues
                    /\ templateValues["nodes"] = k8s.Nodes
                    /\ templateValues["initialiserConfigFile"] = k8sInitServerConfigFile
                    /\ Cardinality({ i \in 1..Len(k8s.Nodes) :
                                       k8s.Nodes[i].Hostname = templateValues["initialiser"] }) = 1
               ELSE /\ MultiNodeKeys \cap DOMAIN templateValues = {}
                    /\ templateValues["configFile"] = k8sServerConfigFile

\* C9 witness: the smallest multi-node cluster, rendered with the k3s multi-node template
C9_Witness ==
    /\ Len(k8s.Nodes) = 2
    /\ script.template = "multi-node-k3s"
    /\ ret.scripts = <<k8sInstallScript>>

\* the Manifest Composer has no contributor
NothingToCompose ==
    /\ k8s.Network.APIVIP = ""
    /\ ~registry.present \/ (registry.manifestsPath = "" /\ registry.charts = <<>>)

\* C10: with no VIP and a registry that is absent or reports no manifests path
\* and no charts, no manifests directory or file is ever created, manifestsPath
\* stays empty, and the rendered script has neither the manifests copy nor the
\* unit, so no machine stages manifests or installs the unit.
C10_NothingToCompose ==
    NothingToCompose =>
        /\ manifestDestDir \notin fs
        /\ ManifestFiles = {}
        /\ staged.manifestsPath = ""
        /\ templateValues # NoValues => templateValues["manifestsPath"] = ""
        /\ script.template = "multi-node-k3s" => ~script.manifestsBlock
        /\ (bpc = "returned" /\ calls # <<>> /\ calls[Len(calls)] = "configureManifests") =>
               (registry.present /\ ret.err = "getting helm charts")
        /\ \A m \in Machines : node[m].fx \cap InitialiserEffects = {} /\ node[m].sys = {}

\* C10 witness: such a build with a registry present, and its initialiser
\* booted to the end of the script
C10_Witness ==
    /\ NothingToCompose
    /\ registry.present
    /\ \E m \in Machines : node[m].HOSTNAME = cluster.InitialiserName /\ node[m].pc = "done"

\* C11: configureManifests returns a non-empty manifestsPath only if at least
\* one manifest file (VIP manifest, raw registry manifest or Helm chart file)
\* was produced in the manifests directory, so no machine ever reaches the
\* manifests copy of line 39 with an empty or missing source directory. A
\* registry manifests path that holds no files breaks it: line 394 marks the
\* path as populated whatever CopyFiles copied.
C11_ManifestsCopyGuard ==
    /\ staged.manifestsPath # "" => (manifestDestDir \in fs /\ ManifestFiles # {})
    /\ \A m \in Machines :
          At(m, "cpManifests") => (manifestDestDir \in fs /\ ManifestFiles # {})

\* the entries of the install directory on the build host
InstallEntries ==
    { e \in {DirEntry} \cup { FilePool[i] : i \in DOMAIN FilePool } :
        Join(installPathRel, e.Name) \in fs }

StageCalled(stage) == \E i \in DOMAIN calls : calls[i] = stage
StageFailed(stage) == bpc = "returned" /\ calls # <<>> /\ calls[Len(calls)] = stage

\* the k3s artefact stage ran, the download collaborator returned nil and
\* os.ReadDir listed the install directory
K3sInstallDirListed ==
    /\ StageCalled("downloadArtefacts")
    /\ Distribution = "k3s"
    /\ StageFailed("downloadArtefacts") =>
           ret.err \notin {"creating kubernetes images dir", "creating kubernetes install dir",
                           "downloading artefacts", "reading k3s install path"}

\* C12: once the download returned and the install directory is listed,
\* downloadK3sArtefacts succeeds exactly when the directory holds one entry
\* that is not a directory, and binaryPath then names that entry under
\* kubernetes/install; with zero entries, two or more, or a single directory
\* it returns the unexpected-entries error and no binary path.
C12_K3sStaging ==
    K3sInstallDirListed =>
        LET ok == ~StageFailed("downloadArtefacts")
            one == Cardinality(InstallEntries) = 1 /\ \A e \in InstallEntries : ~e.IsDir
        IN  /\ ok <=> one
            /\ ok => staged.binaryPath =
                       prependArtefactPath(Join(installPathRel, (CHOOSE e \in InstallEntries : TRUE).Name))
            /\ ~ok => /\ ret.err = "k3s install path contains unexpected entries"
                      /\ ret.scripts = <<>>
                      /\ staged.binaryPath = ""
                      /\ script = NoScript

\* C12 witness: an install directory holding a single directory is refused
C12_Witness ==
    /\ K3sInstallDirListed
    /\ InstallEntries = {DirEntry}
    /\ StageFailed("downloadArtefacts")
    /\ ret.err = "k3s install path contains unexpected entries"

\* the stages of the pipeline, in the order of lines 79-98 and 133-181
StageOrder ==
    <<"NewCluster", "storeKubernetesClusterConfig", "downloadKubernetesInstallScript",
      "downloadArtefacts", "configureManifests", "storeKubernetesInstaller">>

\* C13: the stages run in the order cluster creation, config persistence,
\* install-script download, artefact download, manifest composition, rendering;
\* a failing stage makes configureKubernetes return an error and no script
\* name, no later stage runs and 20-k8s-install.sh is not written; the script
\* name is returned, alone, exactly when every stage succeeded.
C13_NoPartialSuccess ==
    /\ [](/\ \E n \in 0..Len(StageOrder) : calls = SubSeq(StageOrder, 1, n)
          /\ bpc # "returned" => (ret = NotReturned /\ combustionScriptPath \notin fs)
          /\ bpc = "returned" =>
                /\ ret.scripts \in {<<>>, <<k8sInstallScript>>}
                /\ ret.scripts # <<>> <=> (ret.err = NoError /\ calls = StageOrder)
                /\ ret.scripts # <<>> <=> combustionScriptPath \in fs
                /\ ret.scripts # <<>> <=> script # NoScript
                /\ (ret.err = NoError /\ ret.scripts = <<>>) =>
                       (k8s.Version = VersionEmpty /\ calls = <<>>))
    /\ [][bpc = "returned" =>
             (calls' = calls /\ fs' = fs /\ ret' = ret /\ script' = script /\ bpc' = bpc)]_vars

\* C13 witness: manifest composition failed after the artefacts were staged
C13_Witness ==
    /\ StageFailed("configureManifests")
    /\ ret.err # NoError
    /\ staged.imagesPath # ""
    /\ combustionScriptPath \notin fs

\* path names something among `files`, the files and directories of the build host
StagedIn(files, path) == \E p \in files : prependArtefactPath(p) = path

\* everything a multi-node script rendered from tv reads from the media at boot
\* (the registry mirrors file is optional: line 74 tests for it)
BootArtefactsStaged(tv, files) ==
    /\ \A i \in 1..Len(tv["nodes"]) :
          LET nd == tv["nodes"][i]
              file == IF nd.Hostname = tv["initialiser"]
                      THEN tv["initialiserConfigFile"] ELSE nd.Type \o ".yaml"
          IN  StagedIn(files, Join(tv["configFilePath"], file))
    /\ StagedIn(files, tv["imagesPath"])
    /\ StagedIn(files, tv["installScript"])
    /\ "binaryPath" \in DOMAIN tv => StagedIn(files, tv["binaryPath"])
    /\ "installPath" \in DOMAIN tv => StagedIn(files, tv["installPath"])
    /\ tv["manifestsPath"] # "" => StagedIn(files, tv["manifestsPath"])

\* C14: when a multi-node script is rendered, every path it reads at boot
\* already exists on the build host: for every declared node the config file
\* that node selects (init_server.yaml for the initialiser, server.yaml for
\* another server, agent.yaml for an agent), the binary (or install) path, the
\* images directory, the install script and, when named, the manifests
\* directory; they were there before the rendering step and stay there.
C14_PathConsistency ==
    /\ []((Rendered /\ ~singleNode(k8s.Nodes)) =>
             /\ BootArtefactsStaged(templateValues, fs)
             /\ script.template = "multi-node-k3s" =>
                   \A i \in 1..Len(k8s.Nodes) :
                       OnMedia(SelectedConfig(script, k8s.Nodes[i].Hostname, k8s.Nodes[i].Type)))
    /\ [][(script' # script /\ ~singleNode(k8s.Nodes)) =>
             BootArtefactsStaged(templateValues', fs)]_vars

\* C14 witness: a rendered three-node cluster with an initialiser, another
\* server and an agent
C14_Witness ==
    /\ script.template = "multi-node-k3s"
    /\ \E i, j, l \in 1..Len(k8s.Nodes) :
          /\ k8s.Nodes[i].Hostname = script.initialiser
          /\ j # i /\ k8s.Nodes[j].Type = "server"
          /\ k8s.Nodes[l].Type = "agent"

TwoServerWarning == "two-servers" \in warnings
Supported(version) == version # VersionEmpty /\ kubernetesConfigurator(version) # "nil"

\* C15 (as claimed): the two-server warning is emitted if and only if exactly
\* two server nodes are declared.
C15_Original ==
    bpc # "start" => (TwoServerWarning <=> ServersCount(k8s.Nodes) = 2)

\* C15: the two-server warning is emitted exactly when the version names a
\* supported distribution and exactly two server nodes are declared; the step
\* that emits it changes neither the result, the audit outcome, the files nor
\* the stages called, the build goes on to cluster creation with or without
\* it, and nothing after that step emits or withdraws it.
C15_TwoServerWarning ==
    /\ [](/\ bpc # "start" =>
                (TwoServerWarning <=> (Supported(k8s.Version) /\ ServersCount(k8s.Nodes) = 2))
          /\ (bpc = "returned" /\ TwoServerWarning) => StageCalled("NewCluster"))
    /\ [][(bpc = "start" /\ Supported(k8s.Version)) =>
             /\ bpc' = "newCluster"
             /\ UNCHANGED <<k8s, registry, cluster, fs, audit, calls, staged,
                            templateValues, script, ret, node>>]_vars
    /\ [][bpc # "start" => (TwoServerWarning' <=> TwoServerWarning)]_vars

\* C15 witness: a build that warned about two servers and rendered its script
C15_Witness ==
    /\ TwoServerWarning
    /\ ret.scripts = <<k8sInstallScript>>
    /\ ret.err = NoError

NoBuildEffect ==
    /\ calls = <<>>
    /\ fs = {}
    /\ cluster = NoCluster
    /\ staged = NoStaged
    /\ templateValues = NoValues
    /\ script = NoScript

NamesDistribution(version) ==
    Contains(version, KubernetesDistroRKE2) \/ Contains(version, KubernetesDistroK3S)

\* C17: with an empty version configureKubernetes returns no script and no
\* error, with a non-empty version naming neither RKE2 nor k3s it returns an
\* error, and in both cases nothing was created, downloaded or written; the
\* topology collaborator is called and the filesystem touched only for a
\* version that names a supported distribution.
C17_VersionGate ==
    /\ k8s.Version = VersionEmpty =>
          /\ NoBuildEffect
          /\ bpc \in {"start", "returned"}
          /\ bpc = "returned" => ret = Return(<<>>, NoError)
    /\ (k8s.Version # VersionEmpty /\ ~NamesDistribution(k8s.Version)) =>
          /\ NoBuildEffect
          /\ bpc \in {"start", "returned"}
          /\ bpc = "returned" =>
                (ret.scripts = <<>> /\ ret.err = "cannot configure kubernetes version")
    /\ ~NoBuildEffect => NamesDistribution(k8s.Version)
    /\ (bpc = "returned" /\ NamesDistribution(k8s.Version)) => StageCalled("NewCluster")

\* C17 witness: a build refused for a version that names no distribution
C17_Witness ==
    /\ k8s.Version = VersionPlain
    /\ k8s.Nodes # <<>>
    /\ bpc = "returned"
    /\ ret.err = "cannot configure kubernetes version"

\* machines that selected the initialiser config / that installed the unit
SelectedInitialiserConfig ==
    { m \in Machines : /\ Completed(node[m], "selectConfig")
                       /\ node[m].CONFIGFILE = Join(script.configFilePath, script.initialiserConfigFile) }
InstalledUnit == { m \in Machines : node[m].fx \cap {"unitFile", "unitEnabled"} # {} }
NamedInitialiser == { m \in Machines : k8s.Nodes[m].Hostname = templateValues["initialiser"] }

\* C18: when every declared node boots the same script under its own hostname,
\* in every interleaving the machines that select the initialiser config are
\* exactly those of the one node named by `initialiser` that got as far as
\* config selection, only that machine installs the unit, every other machine
\* selects the config of its own role, and a step of one machine changes no
\* other machine.
C18_FleetInitialiser ==
    /\ [](node # <<>> =>
             /\ Cardinality(NamedInitialiser) = 1
             /\ SelectedInitialiserConfig \subseteq NamedInitialiser
             /\ InstalledUnit \subseteq SelectedInitialiserConfig
             /\ Cardinality(SelectedInitialiserConfig) <= 1
             /\ Cardinality(InstalledUnit) <= 1
             /\ \A m \in Machines :
                   Completed(node[m], "selectConfig") =>
                       /\ node[m].HOSTNAME = k8s.Nodes[m].Hostname
                       /\ m \in NamedInitialiser => m \in SelectedInitialiserConfig
                       /\ m \notin NamedInitialiser =>
                              node[m].CONFIGFILE =
                                  Join(script.configFilePath, k8s.Nodes[m].Type \o ".yaml")
             /\ (\A m \in Machines : Completed(node[m], "selectConfig")) =>
                    Cardinality(SelectedInitialiserConfig) = 1)
    /\ [][node # <<>> =>
             \A m1, m2 \in Machines :
                 (m1 # m2 /\ node'[m1] # node[m1]) => node'[m2] = node[m2]]_vars

\* C18 witness: two servers ran the script to its end, one of them as the
\* initialiser with the unit installed, the other with server.yaml
C18_Witness ==
    /\ Cardinality(Machines) >= 2
    /\ \A m \in Machines : node[m].pc = "done" /\ node[m].NODETYPE = "server"
    /\ Cardinality(InstalledUnit) = 1
    /\ \E m \in Machines : node[m].config = Join(script.configFilePath, k8sServerConfigFile)

\* C19: a returned configureKubernetes has recorded exactly one audit outcome:
\* `failed` whenever it returns an error, `successful` only with a script name,
\* `skipped` only for an empty version. The return of line 90 (os.MkdirAll of
\* the artefacts directory failed) records none.
C19_AuditOnce ==
    /\ bpc # "returned" => audit = <<>>
    /\ bpc = "returned" =>
          /\ Len(audit) = 1
          /\ ret.err # NoError => audit = <<"failed">>
          /\ audit = <<"successful">> <=> ret.scripts = <<k8sInstallScript>>
          /\ audit = <<"skipped">> <=> k8s.Version = VersionEmpty

\* C20: on every machine that reached runtime installation the role exported
\* to the installer is the Type the hosts table gives for its hostname; a
\* machine holding the initialiser config is installed as `server`, and a
\* machine installed as `agent` holds agent.yaml.
C20_RoleMatchesConfig ==
    \A m \in Machines :
        LET n == node[m] IN
        Completed(n, "exports") =>
            /\ Declared(n.HOSTNAME)
            /\ n.INSTALL_K3S_EXEC = DeclaredType(n.HOSTNAME)
            /\ n.INSTALL_K3S_EXEC \in Types
            /\ n.config = n.CONFIGFILE
            /\ n.CONFIGFILE = Join(script.configFilePath, script.initialiserConfigFile) =>
                   n.INSTALL_K3S_EXEC = "server"
            /\ n.INSTALL_K3S_EXEC = "agent" =>
                   n.config = Join(script.configFilePath, k8sAgentConfigFile)
            /\ n.INSTALL_K3S_EXEC = "server" =>
                   n.config \in { Join(script.configFilePath, k8sServerConfigFile),
                                  Join(script.configFilePath, k8sInitServerConfigFile) }

\* C20 witness: an agent installed by the installer with agent.yaml in place
C20_Witness ==
    \E m \in Machines :
        /\ "installer" \in node[m].fx
        /\ node[m].INSTALL_K3S_EXEC = "agent"
        /\ node[m].config = Join(script.configFilePath, k8sAgentConfigFile)

====
